---- MODULE Spec2Model ----
(***************************************************************************)
(* TypedPromise (enzo418/typed-promise): the PromiseContext record, the    *)
(* registration surface of BaseTypedPromise (ok, fail, catch, cancelled,   *)
(* finally, cancel), the await bridge (then) and the two settlement entry  *)
(* points (resolve, reject) of TypedPromise.                               *)
(*                                                                         *)
(* A run is a sequence of calls made on one instance by its consumer and   *)
(* its producer.  Every call is one atomic action (JavaScript runs each    *)
(* call to completion on one thread).  The model keeps, next to the        *)
(* context, the list of calls made so far (ops) and the list of callback   *)
(* invocations they caused (calls), so that "invoked exactly once, with v, *)
(* during resolve" is a predicate of the state.                            *)
(***************************************************************************)
EXTENDS Integers, Sequences, FiniteSets

\* Longest sequence of calls on one instance that is explored.
MaxOps == 4

----------------------------------------------------------------------------
(* JavaScript values.  Every value is a record [k, n]: k is its type and n *)
(* tells the values of one type apart.                                     *)

Undefined == [k |-> "undefined", n |-> 0]

Num(i) == [k |-> "number", n |-> i]

\* The object { cancelled: true } handed to the await failure continuation.
CancelSignal == [k |-> "object", n |-> 1]

\* The error object a throwing callback throws: one per callback, so that
\* the origin of a propagating error is known.
Thrown(cb) == [k |-> "error", n |-> cb.id]

\* The non-empty string a recovery callback returns: one per callback.
Recovered(cb) == [k |-> "string", n |-> cb.id]

\* Values the producer passes to resolve: v + 1 is falsy for -1.
ResolveValues == {Num(-1), Num(1)}

\* Values the producer passes to reject; 0 is falsy.
RejectValues == {Num(0), Num(1)}

\* JavaScript truthiness of a value: undefined, 0 and '' are falsy.
Truthy(v) ==
    CASE v.k = "undefined" -> FALSE
      [] v.k = "number" -> v.n # 0
      [] v.k = "string" -> v.n # 0
      [] OTHER -> TRUE

\* a || b
Or(a, b) == IF Truthy(a) THEN a ELSE b

----------------------------------------------------------------------------
(* Callbacks.  A callback is [id, role, beh]: id is the index of the call  *)
(* that registered it (0 for the fields' initial values), role the         *)
(* parameter it was passed as, beh what it does when invoked.              *)

\* `null`, the initial catchCallback and cancelledCallback.
Null == [id |-> 0, role |-> "null", beh |-> "null"]

\* `() => {}`, the initial okCallback, failCallback and finallyCallback.
Noop(field) == [id |-> 0, role |-> field, beh |-> "void"]

\* if (callback): a function is truthy, null is not.
IsSet(cb) == cb.beh # "null"

\* What the callbacks a consumer passes do: "void" returns undefined, "throw"
\* throws, "inc" is v => v + 1, "recover" returns a string.
OkBehaviours == {"void", "throw", "inc"}

FailBehaviours == {"void", "throw"}

CatchBehaviours == {"recover", "throw"}

CancelledBehaviours == {"void"}

FinallyBehaviours == {"void", "throw"}

ThenBehaviours == {"void"}

RejectedBehaviours == {"void"}

\* The result of calling cb with the arguments args: it returns val or throws val.
Invoke(cb, args) ==
    CASE cb.beh = "throw" -> [threw |-> TRUE, val |-> Thrown(cb)]
      [] cb.beh = "recover" -> [threw |-> FALSE, val |-> Recovered(cb)]
      [] cb.beh = "inc" ->
           [threw |-> FALSE,
            val |-> IF Len(args) > 0 /\ args[1].k = "number"
                    THEN Num(args[1].n + 1) ELSE Undefined]
      [] OTHER -> [threw |-> FALSE, val |-> Undefined]

\* One entry of the invocation log: cb was called with args.
Call(cb, args) == [cb |-> cb, args |-> args]

----------------------------------------------------------------------------
(* The results of one call: the context it leaves, the callbacks it        *)
(* invoked in order, and whether it threw to its caller.                   *)

Return(c, cs) == [ctx |-> c, calls |-> cs, threw |-> FALSE, thrown |-> Undefined]

Throw(c, cs, e) == [ctx |-> c, calls |-> cs, threw |-> TRUE, thrown |-> e]

\* new PromiseContext()
PromiseContext ==
    [status |-> "pending",
     thenValue |-> Undefined,
     catchCallback |-> Null,
     thenError |-> Undefined,
     okCallback |-> Noop("okCallback"),
     value |-> Undefined,
     failCallback |-> Noop("failCallback"),
     error |-> Undefined,
     finallyCallback |-> Noop("finallyCallback"),
     cancelledCallback |-> Null,
     isAwaited |-> FALSE]

\* callAsFinally handing over no value as soon as there is an error.
callAsFinally_valueOrError(c, cs, func) ==
    LET e == Or(c.error, c.thenError)
        args == <<IF Truthy(e) THEN Undefined ELSE c.thenValue, e>>
        r == Invoke(func, args)
        cs2 == Append(cs, Call(func, args))
    IN  IF r.threw THEN Throw(c, cs2, r.val) ELSE Return(c, cs2)

\* callAsFinally putting the cleanup call ahead of the calls already made.
callAsFinally_first(c, cs, func) ==
    LET args == <<c.thenValue, Or(c.error, c.thenError)>>
        r == Invoke(func, args)
        cs2 == <<Call(func, args)>> \o cs
    IN  IF r.threw THEN Throw(c, cs2, r.val) ELSE Return(c, cs2)

\* func.apply(null, [thenValue, error || thenError])
callAsFinally(c, cs, func) ==
    LET args == <<c.thenValue, Or(c.error, c.thenError)>>
        r == Invoke(func, args)
        cs2 == Append(cs, Call(func, args))
    IN  IF r.threw THEN Throw(c, cs2, r.val) ELSE Return(c, cs2)

\* callCatchCallbackOrPropagate calling the catch callback without the error.
callCatchCallback_noArgument(c, cs, error) ==
    IF ~IsSet(c.catchCallback)
    THEN [threw |-> TRUE, val |-> error, calls |-> cs]
    ELSE LET r == Invoke(c.catchCallback, <<Undefined>>)
         IN  [threw |-> r.threw, val |-> r.val,
              calls |-> Append(cs, Call(c.catchCallback, <<Undefined>>))]

\* callCatchCallbackOrPropagate swallowing the error when there is no catch callback.
callCatchCallback_swallow(c, cs, error) ==
    IF ~IsSet(c.catchCallback)
    THEN [threw |-> FALSE, val |-> Undefined, calls |-> cs]
    ELSE LET r == Invoke(c.catchCallback, <<error>>)
         IN  [threw |-> r.threw, val |-> r.val,
              calls |-> Append(cs, Call(c.catchCallback, <<error>>))]

\* Throws error when there is no catch callback, else calls it: the result
\* carries the value it returned (val) or the value that propagates.
callCatchCallbackOrPropagate(c, cs, error) ==
    IF ~IsSet(c.catchCallback)
    THEN [threw |-> TRUE, val |-> error, calls |-> cs]
    ELSE LET r == Invoke(c.catchCallback, <<error>>)
         IN  [threw |-> r.threw, val |-> r.val,
              calls |-> Append(cs, Call(c.catchCallback, <<error>>))]

\* The resolved branch keeping every thrown error as the recovered error.
callOnResolved_swallow(c, callback) ==
    LET r == Invoke(callback, <<c.value>>)
        cs == <<Call(callback, <<c.value>>)>>
    IN  IF ~r.threw
        THEN Return([c EXCEPT !.value = Or(r.val, c.value)], cs)
        ELSE Return([c EXCEPT !.thenError = r.val], cs)

\* The resolved branch shared by ok and then:
\*   try { value = callback(value) || value }
\*   catch (error) { thenError = callCatchCallbackOrPropagate(error) }
callOnResolved(c, callback) ==
    LET r == Invoke(callback, <<c.value>>)
        cs == <<Call(callback, <<c.value>>)>>
    IN  IF ~r.threw
        THEN Return([c EXCEPT !.value = Or(r.val, c.value)], cs)
        ELSE LET k == callCatchCallbackOrPropagate(c, cs, r.val)
             IN  IF k.threw
                 THEN Throw(c, k.calls, k.val)
                 ELSE Return([c EXCEPT !.thenError = k.val], k.calls)

\* ok keeping the callback that was registered first.
ok_firstWins(c, callback) ==
    IF c.status = "resolved"
    THEN callOnResolved(c, callback)
    ELSE IF c.okCallback.id # 0
         THEN Return(c, <<>>)
         ELSE Return([c EXCEPT !.okCallback = callback], <<>>)

\* ok calling the callback at once whatever the status.
ok_eager(c, callback) == callOnResolved(c, callback)

\* ok storing the callback whatever the status.
ok_alwaysStore(c, callback) == Return([c EXCEPT !.okCallback = callback], <<>>)

ok(c, callback) ==
    IF c.status = "resolved"
    THEN callOnResolved(c, callback)
    ELSE Return([c EXCEPT !.okCallback = callback], <<>>)

\* fail testing for the wrong status.
fail_wrongStatus(c, callback) ==
    IF c.status = "resolved"
    THEN LET r == Invoke(callback, <<c.error>>)
             cs == <<Call(callback, <<c.error>>)>>
         IN  IF r.threw THEN Throw(c, cs, r.val) ELSE Return(c, cs)
    ELSE Return([c EXCEPT !.failCallback = callback], <<>>)

fail(c, callback) ==
    IF c.status = "rejected"
    THEN LET r == Invoke(callback, <<c.error>>)
             cs == <<Call(callback, <<c.error>>)>>
         IN  IF r.threw THEN Throw(c, cs, r.val) ELSE Return(c, cs)
    ELSE Return([c EXCEPT !.failCallback = callback], <<>>)

catch(c, callback) ==
    IF c.status = "rejected"
    THEN LET r == Invoke(callback, <<c.error>>)
             cs == <<Call(callback, <<c.error>>)>>
         IN  IF r.threw THEN Throw(c, cs, r.val) ELSE Return(c, cs)
    ELSE Return([c EXCEPT !.catchCallback = callback], <<>>)

cancelled(c, callback) ==
    IF c.status = "cancelled"
    THEN LET r == Invoke(callback, <<>>)
             cs == <<Call(callback, <<>>)>>
         IN  IF r.threw THEN Throw(c, cs, r.val) ELSE Return(c, cs)
    ELSE Return([c EXCEPT !.cancelledCallback = callback], <<>>)

finally(c, callback) ==
    IF c.status = "resolved" \/ c.status = "rejected"
    THEN callAsFinally(c, <<>>, callback)
    ELSE Return([c EXCEPT !.finallyCallback = callback], <<>>)

cancel(c) == Return([c EXCEPT !.status = "cancelled"], <<>>)

\* then forgetting to mark the instance as awaited.
then_notAwaited(c, callback, rejected) ==
    LET r == IF c.status = "resolved"
             THEN callOnResolved(c, callback)
             ELSE Return([c EXCEPT !.okCallback = callback], <<>>)
    IN  IF r.threw
        THEN r
        ELSE IF IsSet(rejected)
             THEN Return([r.ctx EXCEPT !.failCallback = rejected], r.calls)
             ELSE r

\* rejected is Null when the optional second argument is left out.
then(c, callback, rejected) ==
    LET c1 == [c EXCEPT !.isAwaited = TRUE]
        r == IF c1.status = "resolved"
             THEN callOnResolved(c1, callback)
             ELSE Return([c1 EXCEPT !.okCallback = callback], <<>>)
    IN  IF r.threw
        THEN r
        ELSE IF IsSet(rejected)
             THEN Return([r.ctx EXCEPT !.failCallback = rejected], r.calls)
             ELSE r

\* The branch shared by resolve and reject when status is 'cancelled'.
settleCancelled(c) ==
    LET r1 == IF IsSet(c.cancelledCallback)
              THEN LET r == Invoke(c.cancelledCallback, <<>>)
                   IN  [threw |-> r.threw, val |-> r.val,
                        calls |-> <<Call(c.cancelledCallback, <<>>)>>]
              ELSE [threw |-> FALSE, val |-> Undefined, calls |-> <<>>]
    IN  IF r1.threw
        THEN Throw(c, r1.calls, r1.val)
        ELSE IF c.isAwaited
             THEN LET r2 == Invoke(c.failCallback, <<CancelSignal>>)
                      cs == Append(r1.calls, Call(c.failCallback, <<CancelSignal>>))
                  IN  IF r2.threw THEN Throw(c, cs, r2.val) ELSE Return(c, cs)
             ELSE Return(c, r1.calls)

\* resolve leaving a context that is not pending as it is.
resolve_onlyPending(c, value) ==
    IF c.status = "cancelled"
    THEN settleCancelled(c)
    ELSE IF c.status # "pending"
         THEN Return(c, <<>>)
         ELSE LET c1 == [c EXCEPT !.status = "resolved", !.value = value,
                                  !.thenValue = value]
                  r == Invoke(c1.okCallback, <<c1.value>>)
                  cs == <<Call(c1.okCallback, <<c1.value>>)>>
              IN  IF ~r.threw
                  THEN callAsFinally([c1 EXCEPT !.thenValue = Or(r.val, value)],
                                     cs, c1.finallyCallback)
                  ELSE LET k == callCatchCallbackOrPropagate(c1, cs, r.val)
                       IN  IF k.threw
                           THEN Throw(c1, k.calls, k.val)
                           ELSE callAsFinally([c1 EXCEPT !.thenError = k.val],
                                              k.calls, c1.finallyCallback)

\* resolve undoing its assignments when the success callback's error propagates.
resolve_rollsBack(c, value) ==
    IF c.status = "cancelled"
    THEN settleCancelled(c)
    ELSE LET c1 == [c EXCEPT !.status = "resolved", !.value = value,
                             !.thenValue = value]
             r == Invoke(c1.okCallback, <<c1.value>>)
             cs == <<Call(c1.okCallback, <<c1.value>>)>>
         IN  IF ~r.threw
             THEN callAsFinally([c1 EXCEPT !.thenValue = Or(r.val, value)], cs,
                                c1.finallyCallback)
             ELSE LET k == callCatchCallbackOrPropagate(c1, cs, r.val)
                  IN  IF k.threw
                      THEN Throw(c, k.calls, k.val)
                      ELSE callAsFinally([c1 EXCEPT !.thenError = k.val],
                                         k.calls, c1.finallyCallback)

resolve(c, value) ==
    IF c.status = "cancelled"
    THEN settleCancelled(c)
    ELSE LET c1 == [c EXCEPT !.status = "resolved", !.value = value,
                             !.thenValue = value]
             r == Invoke(c1.okCallback, <<c1.value>>)
             cs == <<Call(c1.okCallback, <<c1.value>>)>>
         IN  IF ~r.threw
             THEN callAsFinally([c1 EXCEPT !.thenValue = Or(r.val, value)], cs,
                                c1.finallyCallback)
             ELSE LET k == callCatchCallbackOrPropagate(c1, cs, r.val)
                  IN  IF k.threw
                      THEN Throw(c1, k.calls, k.val)
                      ELSE callAsFinally([c1 EXCEPT !.thenError = k.val],
                                         k.calls, c1.finallyCallback)

\* reject without the test for a cancelled context.
reject_unguarded(c, value) ==
    LET c1 == [c EXCEPT !.status = "rejected", !.error = value]
        r == Invoke(c1.failCallback, <<c1.error>>)
        cs == <<Call(c1.failCallback, <<c1.error>>)>>
    IN  IF r.threw
        THEN Throw(c1, cs, r.val)
        ELSE callAsFinally(c1, cs, c1.finallyCallback)

\* reject storing the rejected value also when the context is cancelled.
reject_cancelledKeepsError(c, value) ==
    IF c.status = "cancelled"
    THEN LET r == settleCancelled(c)
         IN  [r EXCEPT !.ctx.error = value]
    ELSE reject_unguarded(c, value)

reject(c, value) ==
    IF c.status = "cancelled"
    THEN settleCancelled(c)
    ELSE LET c1 == [c EXCEPT !.status = "rejected", !.error = value]
         IN  IF IsSet(c1.failCallback)
             THEN LET r == Invoke(c1.failCallback, <<c1.error>>)
                      cs == <<Call(c1.failCallback, <<c1.error>>)>>
                  IN  IF r.threw
                      THEN Throw(c1, cs, r.val)
                      ELSE callAsFinally(c1, cs, c1.finallyCallback)
             ELSE Throw(c1, <<>>, c1.error)

----------------------------------------------------------------------------
VARIABLES
    context,   \* the PromiseContext of the instance
    ops,       \* the calls made on the instance so far, in order
    calls      \* the callback invocations so far, in order

vars == <<context, ops, calls>>

\* The index the next call gets; the callbacks it registers carry it as id.
next == Len(ops) + 1

NewCallback(role, beh) == [id |-> next, role |-> role, beh |-> beh]

\* The record of the call `name`, made with the value val and the callbacks
\* cb and cb2, that ended as r says.  pre is the context the call found.
OpRecord(name, val, cb, cb2, r) ==
    [name |-> name, val |-> val, cb |-> cb, cb2 |-> cb2,
     pre |-> context, threw |-> r.threw, thrown |-> r.thrown]

\* The invocations cs, marked with the index of the call that made them.
Stamp(cs) ==
    [i \in 1..Len(cs) |-> [cb |-> cs[i].cb, args |-> cs[i].args, at |-> next]]

\* new TypedPromise(action) with an action that settles later, if at all.
Init ==
    /\ context = PromiseContext
    /\ ops = <<>>
    /\ calls = <<>>

Ok ==
    \E b \in OkBehaviours :
        LET cb == NewCallback("ok", b)
            r == ok(context, cb)
        IN  /\ Len(ops) < MaxOps
            /\ context' = r.ctx
            /\ ops' = Append(ops, OpRecord("ok", Undefined, cb, Null, r))
            /\ calls' = calls \o Stamp(r.calls)

Fail ==
    \E b \in FailBehaviours :
        LET cb == NewCallback("fail", b)
            r == fail(context, cb)
        IN  /\ Len(ops) < MaxOps
            /\ context' = r.ctx
            /\ ops' = Append(ops, OpRecord("fail", Undefined, cb, Null, r))
            /\ calls' = calls \o Stamp(r.calls)

Catch ==
    \E b \in CatchBehaviours :
        LET cb == NewCallback("catch", b)
            r == catch(context, cb)
        IN  /\ Len(ops) < MaxOps
            /\ context' = r.ctx
            /\ ops' = Append(ops, OpRecord("catch", Undefined, cb, Null, r))
            /\ calls' = calls \o Stamp(r.calls)

Cancelled ==
    \E b \in CancelledBehaviours :
        LET cb == NewCallback("cancelled", b)
            r == cancelled(context, cb)
        IN  /\ Len(ops) < MaxOps
            /\ context' = r.ctx
            /\ ops' = Append(ops, OpRecord("cancelled", Undefined, cb, Null, r))
            /\ calls' = calls \o Stamp(r.calls)

Finally ==
    \E b \in FinallyBehaviours :
        LET cb == NewCallback("finally", b)
            r == finally(context, cb)
        IN  /\ Len(ops) < MaxOps
            /\ context' = r.ctx
            /\ ops' = Append(ops, OpRecord("finally", Undefined, cb, Null, r))
            /\ calls' = calls \o Stamp(r.calls)

Cancel ==
    LET r == cancel(context)
    IN  /\ Len(ops) < MaxOps
        /\ context' = r.ctx
        /\ ops' = Append(ops, OpRecord("cancel", Undefined, Null, Null, r))
        /\ calls' = calls \o Stamp(r.calls)

\* The await machinery passes both continuations; the second parameter is optional.
Then ==
    \E b \in ThenBehaviours :
        \E rej \in {Null} \cup {NewCallback("rejected", rb) : rb \in RejectedBehaviours} :
            LET cb == NewCallback("then", b)
                r == then(context, cb, rej)
            IN  /\ Len(ops) < MaxOps
                /\ context' = r.ctx
                /\ ops' = Append(ops, OpRecord("then", Undefined, cb, rej, r))
                /\ calls' = calls \o Stamp(r.calls)

Resolve ==
    \E v \in ResolveValues :
        LET r == resolve(context, v)
        IN  /\ Len(ops) < MaxOps
            /\ context' = r.ctx
            /\ ops' = Append(ops, OpRecord("resolve", v, Null, Null, r))
            /\ calls' = calls \o Stamp(r.calls)

Reject ==
    \E v \in RejectValues :
        LET r == reject(context, v)
        IN  /\ Len(ops) < MaxOps
            /\ context' = r.ctx
            /\ ops' = Append(ops, OpRecord("reject", v, Null, Null, r))
            /\ calls' = calls \o Stamp(r.calls)

Next ==
    \/ Ok
    \/ Fail
    \/ Catch
    \/ Cancelled
    \/ Finally
    \/ Cancel
    \/ Then
    \/ Resolve
    \/ Reject

Spec == Init /\ [][Next]_vars

----------------------------------------------------------------------------
(* Reading the run.                                                        *)

Ops == 1..Len(ops)

\* The context the call number j left.
Post(j) == IF j < Len(ops) THEN ops[j + 1].pre ELSE context

IsSettle(j) == ops[j].name = "resolve" \/ ops[j].name = "reject"

\* The producer kept its contract: it called a settlement entry point at most once.
SettledOnce == Cardinality({j \in Ops : IsSettle(j)}) <= 1

\* The invocations of cb, and those made during the call number j.
CallsOf(cb) == {p \in 1..Len(calls) : calls[p].cb = cb}

CallsOfAt(cb, j) == {p \in CallsOf(cb) : calls[p].at = j}

CallsAt(j) == {p \in 1..Len(calls) : calls[p].at = j}

\* No call between i and j (exclusive) has one of the names.
NoneBetween(i, j, names) == \A m \in Ops : (i < m /\ m < j) => ops[m].name \notin names

----------------------------------------------------------------------------
\* C1: ok(cb) registered while pending, then resolve(v) on the still pending
\* context with cb still the registered success observer: cb is not invoked
\* before the resolve call, and is invoked exactly once, with v, during it;
\* when the producer settles only once, cb is never invoked again.
C1_OkBeforeResolve ==
    \A j \in Ops :
        (ops[j].name = "resolve" /\ ops[j].pre.status = "pending")
        => \A i \in 1..(j - 1) :
            ( /\ ops[i].name = "ok" /\ ops[i].pre.status = "pending"
              /\ NoneBetween(i, j, {"ok", "then"}) )
            => /\ \A p \in CallsOf(ops[i].cb) : calls[p].at >= j
               /\ Cardinality(CallsOfAt(ops[i].cb, j)) = 1
               /\ \A p \in CallsOfAt(ops[i].cb, j) : calls[p].args = <<ops[j].val>>
               /\ SettledOnce => Cardinality(CallsOf(ops[i].cb)) = 1

C1_Witness ==
    \E i \in Ops : \E j \in Ops :
        /\ i < j
        /\ ops[i].name = "ok" /\ ops[i].pre.status = "pending"
        /\ ops[j].name = "resolve" /\ ops[j].pre.status = "pending"
        /\ NoneBetween(i, j, {"ok", "then"})
        /\ j < Len(ops)
        /\ \E p \in CallsOfAt(ops[i].cb, j) : calls[p].args = <<Num(1)>>

\* C2: resolve(v) on the pending context before any ok registration, then the
\* first ok(cb): cb is invoked exactly once, with v, during the ok call, and
\* never again whatever is called afterwards.
C2_ResolveBeforeOk ==
    \A i \in Ops :
        ( /\ ops[i].name = "ok" /\ ops[i].pre.status = "resolved"
          /\ \A m \in 1..(i - 1) : ops[m].name # "ok" )
        => \A j \in 1..(i - 1) :
            ( /\ ops[j].name = "resolve" /\ ops[j].pre.status = "pending"
              /\ \A m \in (j + 1)..(i - 1) : ~IsSettle(m) )
            => /\ CallsOf(ops[i].cb) = CallsOfAt(ops[i].cb, i)
               /\ Cardinality(CallsOf(ops[i].cb)) = 1
               /\ \A p \in CallsOf(ops[i].cb) : calls[p].args = <<ops[j].val>>

C2_Witness ==
    \E j \in Ops : \E i \in Ops :
        /\ j < i /\ i < Len(ops)
        /\ ops[j].name = "resolve" /\ ops[j].pre.status = "pending"
        /\ ops[i].name = "ok" /\ ops[i].pre.status = "resolved"
        /\ \A m \in Ops : m < i => ops[m].name # "ok"
        /\ ops[Len(ops)].name = "resolve"
        /\ \E p \in CallsOfAt(ops[i].cb, i) : calls[p].args = <<Num(-1)>>

\* C3: fail(cb) called after reject(e) settled the pending context invokes cb
\* with e during the fail call; fail(cb) registered while pending and still
\* the registered failure observer when reject(e) settles the pending context
\* is not invoked before, and exactly once, with e, during that reject call
\* (and never again when the producer settles only once).
C3_FailAfterAndBeforeReject ==
    \A j \in Ops :
        (ops[j].name = "reject" /\ ops[j].pre.status = "pending")
        => /\ \A i \in (j + 1)..Len(ops) :
                ( /\ ops[i].name = "fail" /\ ops[i].pre.status = "rejected"
                  /\ \A m \in (j + 1)..(i - 1) : ~IsSettle(m) )
                => /\ Cardinality(CallsOfAt(ops[i].cb, i)) = 1
                   /\ \A p \in CallsOfAt(ops[i].cb, i) :
                        calls[p].args = <<ops[j].val>>
           /\ \A i \in 1..(j - 1) :
                ( /\ ops[i].name = "fail" /\ ops[i].pre.status = "pending"
                  /\ NoneBetween(i, j, {"fail", "then"}) )
                => /\ \A p \in CallsOf(ops[i].cb) : calls[p].at >= j
                   /\ Cardinality(CallsOfAt(ops[i].cb, j)) = 1
                   /\ \A p \in CallsOfAt(ops[i].cb, j) :
                        calls[p].args = <<ops[j].val>>
                   /\ SettledOnce => Cardinality(CallsOf(ops[i].cb)) = 1

C3_Witness ==
    \E i \in Ops : \E j \in Ops : \E m \in Ops :
        /\ i < j /\ j < m
        /\ ops[i].name = "fail" /\ ops[i].pre.status = "pending"
        /\ ops[j].name = "reject" /\ ops[j].pre.status = "pending"
        /\ ops[m].name = "fail" /\ ops[m].pre.status = "rejected"
        /\ \E p \in CallsOfAt(ops[i].cb, j) : calls[p].args = <<Num(0)>>
        /\ \E p \in CallsOfAt(ops[m].cb, m) : calls[p].args = <<Num(0)>>

\* C4: after cancel() on the pending context, a settlement call invokes the
\* registered cancellation observer exactly once, and no callback registered
\* with ok, fail, catch or finally is invoked at any time.
C4_CancelThenSettle ==
    \A j \in Ops :
        IsSettle(j)
        => \A i \in 1..(j - 1) :
            (ops[i].name = "cancel" /\ ops[i].pre.status = "pending")
            => /\ IsSet(ops[j].pre.cancelledCallback)
                    => Cardinality(CallsOfAt(ops[j].pre.cancelledCallback, j)) = 1
               /\ \A p \in 1..Len(calls) :
                    calls[p].cb.role \notin {"ok", "fail", "catch", "finally"}

\* C5: while the producer keeps its contract, no call changes a status that
\* is resolved or rejected; cancel() on such a context has no effect.
C5_SettledIsTerminal ==
    \A j \in Ops :
        (SettledOnce /\ ops[j].pre.status \in {"resolved", "rejected"})
        => Post(j).status = ops[j].pre.status

\* C6: reject(e) on the pending context on which no failure observer was
\* registered (no fail, no then) throws e to its caller.
C6_UnobservedRejectionThrows ==
    \A j \in Ops :
        ( /\ ops[j].name = "reject" /\ ops[j].pre.status = "pending"
          /\ \A m \in Ops : m < j => ops[m].name \notin {"fail", "then"} )
        => ops[j].threw /\ ops[j].thrown = ops[j].val

\* C7: when a callback registered with ok throws x while a recovery callback
\* that returns is registered, the recovery callback is the next callback
\* invoked, once, with x; x does not reach the caller; the value it returned
\* is stored as the recovered error, and is the second argument of every
\* later cleanup invocation (until another recovery, the producer settling
\* only once).
C7_ThrowIsRecovered ==
    \A p \in 1..Len(calls) :
        LET f == calls[p].cb
            j == calls[p].at
            h == ops[j].pre.catchCallback
        IN  (f.role = "ok" /\ f.beh = "throw" /\ h.beh = "recover")
            => /\ p < Len(calls)
               /\ calls[p + 1] = [cb |-> h, args |-> <<Thrown(f)>>, at |-> j]
               /\ Cardinality(CallsOfAt(h, j)) = 1
               /\ ~(ops[j].threw /\ ops[j].thrown = Thrown(f))
               /\ Post(j).thenError = Recovered(h)
               /\ \A q \in 1..Len(calls) :
                    ( /\ q > p + 1
                      /\ calls[q].cb.role \in {"finally", "finallyCallback"}
                      /\ SettledOnce
                      /\ \A m \in 1..Len(calls) :
                            (p + 1 < m /\ m < q) => calls[m].cb.role # "catch" )
                    => calls[q].args[2] = Recovered(h)

C7_Witness ==
    \E p \in 1..Len(calls) : \E q \in 1..Len(calls) :
        /\ calls[p].cb.role = "ok" /\ calls[p].cb.beh = "throw"
        /\ ops[calls[p].at].pre.catchCallback.beh = "recover"
        /\ q > p + 1
        /\ calls[q].cb.role = "finally"
        /\ calls[q].args[2] = Recovered(ops[calls[p].at].pre.catchCallback)

\* C8: a throwing callback registered with ok while pending, still the
\* success observer when resolve(v) settles the pending context, and no
\* recovery callback registered: resolve throws the callback's error to its
\* caller.
C8_ThrowPropagates ==
    \A j \in Ops :
        ( /\ ops[j].name = "resolve" /\ ops[j].pre.status = "pending"
          /\ ~IsSet(ops[j].pre.catchCallback) )
        => \A i \in 1..(j - 1) :
            ( /\ ops[i].name = "ok" /\ ops[i].pre.status = "pending"
              /\ ops[i].cb.beh = "throw"
              /\ NoneBetween(i, j, {"ok", "then"}) )
            => ops[j].threw /\ ops[j].thrown = Thrown(ops[i].cb)

C8_Witness ==
    \E i \in Ops : \E j \in Ops :
        /\ i < j
        /\ ops[i].name = "ok" /\ ops[i].pre.status = "pending"
        /\ ops[i].cb.beh = "throw"
        /\ ops[j].name = "resolve" /\ ops[j].pre.status = "pending"
        /\ NoneBetween(i, j, {"ok", "then"})
        /\ ~IsSet(ops[j].pre.catchCallback)
        /\ ops[j].thrown = Thrown(ops[i].cb)
        /\ \E m \in Ops : m < j /\ ops[m].name = "finally"

\* C9: once reject(e) settled the pending context (the producer settling only
\* once), every invocation of a callback registered with finally, before or
\* after the rejection, has the arguments (undefined, e).
C9_CleanupAfterReject ==
    \A j \in Ops : \A q \in 1..Len(calls) :
        ( /\ ops[j].name = "reject" /\ ops[j].pre.status = "pending"
          /\ SettledOnce
          /\ calls[q].cb.role = "finally" )
        => calls[q].args = <<Undefined, ops[j].val>>

\* C10: resolve(v) settles the pending context, the success observer throws
\* and a registered recovery callback returns r: the cleanup observer is
\* invoked once during that call, and it and every callback registered with
\* finally later (until another recovery, the producer settling only once)
\* has the arguments (v, r).
C10_CleanupAfterRecovery ==
    \A j \in Ops :
        LET h == ops[j].pre.catchCallback
            Cleanups == {q \in 1..Len(calls) :
                            /\ calls[q].at >= j
                            /\ calls[q].cb.role \in {"finally", "finallyCallback"}}
        IN  ( /\ ops[j].name = "resolve" /\ ops[j].pre.status = "pending"
              /\ ops[j].pre.okCallback.beh = "throw"
              /\ h.beh = "recover" )
            => /\ Cardinality({q \in Cleanups : calls[q].at = j}) = 1
               /\ \A q \in Cleanups :
                    ( /\ SettledOnce
                      /\ \A m \in 1..Len(calls) :
                            (m < q /\ calls[m].at > j) => calls[m].cb.role # "catch" )
                    => calls[q].args = <<ops[j].val, Recovered(h)>>

C10_Witness ==
    \E j \in Ops : \E q \in 1..Len(calls) :
        /\ ops[j].name = "resolve" /\ ops[j].pre.status = "pending"
        /\ ops[j].pre.okCallback.beh = "throw"
        /\ ops[j].pre.catchCallback.beh = "recover"
        /\ calls[q].at = j
        /\ calls[q].cb.role = "finally"
        /\ calls[q].args = <<Num(1), Recovered(ops[j].pre.catchCallback)>>

\* C11: resolve(v) settles the pending context, the next call is ok(f) with
\* f = v => v + 1 and f(v) truthy, and the call after it is finally(cb): cb is
\* invoked during the finally call with (f(v), undefined).
C11_CleanupSeesTransform ==
    \A m \in Ops :
        ( /\ ops[m].name = "finally" /\ m >= 3
          /\ ops[m - 1].name = "ok" /\ ops[m - 1].cb.beh = "inc"
          /\ ops[m - 1].pre.status = "resolved"
          /\ ops[m - 2].name = "resolve" /\ ops[m - 2].pre.status = "pending"
          /\ Truthy(Num(ops[m - 2].val.n + 1)) )
        => \E q \in CallsOfAt(ops[m].cb, m) :
                calls[q].args = <<Num(ops[m - 2].val.n + 1), Undefined>>

C13_AwaitAlwaysSeesCancellation ==
    \A t \in Ops :
        ( /\ ops[t].name = "then" /\ IsSet(ops[t].cb2)
          /\ \A m \in Ops : ops[m].name \in {"cancel", "then", "resolve", "reject"}
          /\ \A m \in Ops : ops[m].name = "then" => m = t
          /\ SettledOnce
          /\ \E s \in Ops : IsSettle(s) /\ ops[s].pre.status = "cancelled"
          /\ \E k \in Ops : ops[k].name = "cancel" /\ ops[k].pre.status = "pending" )
        => \E p \in CallsOf(ops[t].cb2) : calls[p].args = <<CancelSignal>>

\* C14: then(callback, rejected) called on a context a single settlement
\* left resolved with v invokes callback(v) during the call; called on a
\* context left rejected with e it invokes rejected(e) during the call.
C14_ThenDecidesLikeOkAndFail ==
    \A i \in Ops :
        (ops[i].name = "then" /\ IsSet(ops[i].cb2) /\ SettledOnce)
        => /\ ops[i].pre.status = "resolved"
                => \E p \in CallsOfAt(ops[i].cb, i) :
                        calls[p].args = <<ops[i].pre.value>>
           /\ ops[i].pre.status = "rejected"
                => \E p \in CallsOfAt(ops[i].cb2, i) :
                        calls[p].args = <<ops[i].pre.error>>

\* C15, as stated: a settlement call on a context that is already resolved
\* or rejected leaves the status as it was.
C15_SettleKeepsStatus ==
    \A j \in Ops :
        (IsSettle(j) /\ ops[j].pre.status \in {"resolved", "rejected"})
        => Post(j).status = ops[j].pre.status

\* C15, amended: a settlement call on a context that is already resolved or
\* rejected settles it again: resolve leaves it resolved, with the new value,
\* and reject leaves it rejected, with the new error, whatever it was.
C15_SettleOverwritesStatus ==
    \A j \in Ops :
        (IsSettle(j) /\ ops[j].pre.status \in {"resolved", "rejected"})
        => /\ ops[j].name = "resolve"
                => Post(j).status = "resolved" /\ Post(j).value = ops[j].val
           /\ ops[j].name = "reject"
                => Post(j).status = "rejected" /\ Post(j).error = ops[j].val

C15_Witness ==
    \E j \in Ops :
        /\ ops[j].name = "resolve" /\ ops[j].pre.status = "rejected"
        /\ j < Len(ops)
        /\ ops[j + 1].name = "reject"
        /\ context.status = "rejected"

\* C16: a settlement call on the pending context on which a callback was
\* registered with finally invokes that callback during the call.
C16_CleanupAlwaysRuns ==
    \A j \in Ops :
        ( /\ IsSettle(j) /\ ops[j].pre.status = "pending"
          /\ ops[j].pre.finallyCallback.role = "finally" )
        => CallsOfAt(ops[j].pre.finallyCallback, j) # {}

\* The registration methods; a callback's role is the method that took it.
Registrations == {"ok", "fail", "catch", "cancelled", "finally"}

\* C17: when a role is registered again while the context is pending, the
\* callback registered before is never invoked; a callback that a settlement
\* call invokes is the one its role was last registered with while pending;
\* and resolve (reject) on the pending context invokes the callback of the
\* last ok (fail) registration once.
C17_LastWriteWins ==
    /\ \A i2 \in Ops :
        (ops[i2].name \in Registrations /\ ops[i2].pre.status = "pending")
        => \A i1 \in 1..(i2 - 1) :
            ops[i1].name = ops[i2].name
            => /\ CallsOf(ops[i1].cb) = {}
               /\ \A j \in (i2 + 1)..Len(ops) :
                    ( /\ ops[j].pre.status = "pending"
                      /\ \/ ops[j].name = "resolve" /\ ops[i2].name = "ok"
                         \/ ops[j].name = "reject" /\ ops[i2].name = "fail"
                      /\ NoneBetween(i2, j, {ops[i2].name, "then"}) )
                    => Cardinality(CallsOfAt(ops[i2].cb, j)) = 1
    /\ \A p \in 1..Len(calls) :
        (calls[p].cb.role \in Registrations /\ IsSettle(calls[p].at))
        => \A m \in (calls[p].cb.id + 1)..(calls[p].at - 1) :
            ~(ops[m].name = calls[p].cb.role /\ ops[m].pre.status = "pending")

C17_Witness ==
    \E i1 \in Ops : \E i2 \in Ops : \E j \in Ops :
        /\ i1 < i2 /\ i2 < j
        /\ ops[i1].name = "finally" /\ ops[i2].name = "finally"
        /\ IsSettle(j) /\ ops[j].pre.status = "pending"
        /\ CallsOfAt(ops[i2].cb, j) # {}
        /\ CallsOf(ops[i1].cb) = {}


\* C18: a callback registered with cancelled is invoked only during a resolve
\* or reject call that finds the status cancelled, it is invoked by such a
\* call when it is the registered one, and never more than once when
\* settlement is attempted once; without a settlement attempt it is not
\* invoked, whatever the order of cancel and cancelled.
C18_CancelledOnlyAtSettlement ==
    \A i \in Ops :
        ops[i].name = "cancelled"
        => /\ \A p \in CallsOf(ops[i].cb) :
                IsSettle(calls[p].at) /\ ops[calls[p].at].pre.status = "cancelled"
           /\ \A j \in (i + 1)..Len(ops) :
                ( /\ IsSettle(j) /\ ops[j].pre.status = "cancelled"
                  /\ ops[i].pre.status = "pending"
                  /\ NoneBetween(i, j, {"cancelled"}) )
                => CallsOfAt(ops[i].cb, j) # {}
           /\ SettledOnce => Cardinality(CallsOf(ops[i].cb)) <= 1

\* C19: a callback registered with catch is invoked only after a success
\* callback (of ok or of then) threw in the same call; a rejection never
\* invokes it, whether catch comes before or after reject.
C19_CatchOnlyAfterThrow ==
    \A p \in 1..Len(calls) :
        calls[p].cb.role = "catch"
        => \E q \in 1..(p - 1) :
            /\ calls[q].at = calls[p].at
            /\ calls[q].cb.role \in {"ok", "then"}
            /\ Invoke(calls[q].cb, calls[q].args).threw

\* C20: a value other than undefined returned by the success callback becomes
\* the staged value, falsy values included; an undefined return leaves the
\* settled value in place.
C20_ReturnReplacesStaged ==
    \A j \in Ops :
        /\ (ops[j].name = "resolve" /\ ops[j].pre.status # "cancelled")
            => LET r == Invoke(ops[j].pre.okCallback, <<ops[j].val>>)
               IN  ~r.threw
                   => Post(j).thenValue
                        = IF r.val # Undefined THEN r.val ELSE ops[j].val
        /\ (ops[j].name = "ok" /\ ops[j].pre.status = "resolved")
            => LET r == Invoke(ops[j].cb, <<ops[j].pre.value>>)
               IN  ~r.threw
                   => Post(j).value
                        = IF r.val # Undefined THEN r.val ELSE ops[j].pre.value


\* C21: when the producer calls a settlement entry point at most once, at
\* most one of the outcome roles (success observer of ok, failure observer of
\* fail, cancellation observer of cancelled) is ever invoked, whatever the
\* registrations and cancel calls.
C21_OneOutcomeDelivered ==
    SettledOnce
    => Cardinality({calls[p].cb.role : p \in 1..Len(calls)}
                     \cap {"ok", "fail", "cancelled"}) <= 1


\* C23: a callback registered with fail is invoked only on rejection and with
\* the rejected value: by a reject call, with the value passed to it, or at
\* its registration on a rejected context, with the stored error; never with
\* the cancellation signal and never by a resolve call.
C23_FailOnlyOnRejection ==
    \A p \in 1..Len(calls) :
        calls[p].cb.role = "fail"
        => LET j == calls[p].at
           IN  \/ /\ ops[j].name = "reject" /\ ops[j].pre.status # "cancelled"
                  /\ calls[p].args = <<ops[j].val>>
               \/ /\ ops[j].name = "fail" /\ ops[j].pre.status = "rejected"
                  /\ calls[p].args = <<ops[j].pre.error>>


\* C24: ok(cb) on a resolved context with no catch callback registered at
\* that moment, where cb throws: the ok call itself throws the value cb
\* threw, the context is left as it was (nothing is recorded as recovered),
\* and a catch callback registered later is never invoked with that value.
C24_LateOkThrowPropagates ==
    \A i \in Ops :
        ( /\ ops[i].name = "ok" /\ ops[i].pre.status = "resolved"
          /\ ops[i].cb.beh = "throw"
          /\ ~IsSet(ops[i].pre.catchCallback) )
        => /\ ops[i].threw
           /\ ops[i].thrown = Thrown(ops[i].cb)
           /\ Post(i) = ops[i].pre
           /\ \A p \in 1..Len(calls) :
                calls[p].cb.role = "catch" => calls[p].args # <<Thrown(ops[i].cb)>>

C24_Witness ==
    \E i \in Ops : \E m \in Ops :
        /\ ops[i].name = "ok" /\ ops[i].pre.status = "resolved"
        /\ ops[i].cb.beh = "throw"
        /\ ~IsSet(ops[i].pre.catchCallback)
        /\ ops[i].threw
        /\ CallsOfAt(ops[i].cb, i) # {}
        /\ m > i /\ ops[m].name = "catch"


\* C25: the callbacks of one settlement run in a fixed order.  In a resolve
\* call on a context that is not cancelled the success callback is invoked
\* first, the catch callback directly after it and only if it threw, and the
\* cleanup callback last; in a reject call the failure callback is invoked
\* first and the cleanup callback after it.  No other callback is invoked,
\* and the cleanup callback is never invoked before the success or failure
\* callback.
C25_SettlementOrder ==
    \A j \in Ops :
        (IsSettle(j) /\ ops[j].pre.status # "cancelled")
        => LET P == CallsAt(j)
               c == ops[j].pre
               main == IF ops[j].name = "resolve" THEN c.okCallback
                       ELSE c.failCallback
           IN  /\ P # {}
               /\ LET first == CHOOSE p \in P : \A q \in P : p <= q
                  IN  /\ calls[first].cb = main
                      /\ calls[first].args = <<ops[j].val>>
                      /\ \A q \in P \ {first} :
                           \/ /\ calls[q].cb = c.catchCallback
                              /\ ops[j].name = "resolve"
                              /\ q = first + 1
                              /\ Invoke(main, <<ops[j].val>>).threw
                           \/ /\ calls[q].cb = c.finallyCallback
                              /\ \A r \in P : r <= q
               /\ ( /\ ops[j].name = "resolve" /\ IsSet(c.catchCallback)
                    /\ Invoke(main, <<ops[j].val>>).threw )
                  => \E q \in P : calls[q].cb = c.catchCallback

C25_Witness ==
    \E j \in Ops :
        /\ ops[j].name = "resolve" /\ ops[j].pre.status = "pending"
        /\ ops[j].pre.okCallback.role = "ok"
        /\ ops[j].pre.catchCallback.role = "catch"
        /\ ops[j].pre.finallyCallback.role = "finally"
        /\ \E p \in CallsAt(j) :
            /\ calls[p].cb = ops[j].pre.okCallback
            /\ p + 2 \in CallsAt(j)
            /\ calls[p + 1].cb = ops[j].pre.catchCallback
            /\ calls[p + 2].cb = ops[j].pre.finallyCallback


\* C26: cancelled is absorbing.  A call of any method that finds the status
\* cancelled leaves it cancelled, and a resolve or reject call that finds it
\* cancelled leaves value, error, thenValue and thenError as they were.
C26_CancelledIsAbsorbing ==
    \A j \in Ops :
        ops[j].pre.status = "cancelled"
        => /\ Post(j).status = "cancelled"
           /\ IsSettle(j)
                => /\ Post(j).value = ops[j].pre.value
                   /\ Post(j).error = ops[j].pre.error
                   /\ Post(j).thenValue = ops[j].pre.thenValue
                   /\ Post(j).thenError = ops[j].pre.thenError

C26_Witness ==
    \E j \in Ops :
        /\ ops[j].name = "reject" /\ ops[j].pre.status = "cancelled"
        /\ ops[j].pre.value # Undefined
        /\ ops[j].val # ops[j].pre.error
        /\ j < Len(ops) /\ ops[j + 1].name = "resolve"
        /\ ops[j + 1].val # ops[j].pre.value
        /\ context.status = "cancelled"
        /\ context.value = ops[j].pre.value


\* C27: resolve(v) on the pending context whose success callback throws while
\* no catch callback is registered: the call throws what the callback threw,
\* and the assignments stay: status is resolved, value is v, no recovered
\* error is recorded; finally(cb) called next invokes cb at once, once, with
\* (v, undefined).
C27_ThrowKeepsResolved ==
    \A j \in Ops :
        ( /\ ops[j].name = "resolve" /\ ops[j].pre.status = "pending"
          /\ Invoke(ops[j].pre.okCallback, <<ops[j].val>>).threw
          /\ ~IsSet(ops[j].pre.catchCallback) )
        => /\ ops[j].threw
           /\ ops[j].thrown = Thrown(ops[j].pre.okCallback)
           /\ Post(j).status = "resolved"
           /\ Post(j).value = ops[j].val
           /\ Post(j).thenError = Undefined
           /\ (j < Len(ops) /\ ops[j + 1].name = "finally")
                => /\ Cardinality(CallsOfAt(ops[j + 1].cb, j + 1)) = 1
                   /\ \A p \in CallsOfAt(ops[j + 1].cb, j + 1) :
                        calls[p].args = <<ops[j].val, Undefined>>

C27_Witness ==
    \E j \in Ops :
        /\ ops[j].name = "resolve" /\ ops[j].pre.status = "pending"
        /\ ops[j].pre.okCallback.beh = "throw"
        /\ ~IsSet(ops[j].pre.catchCallback)
        /\ ops[j].threw
        /\ j < Len(ops) /\ ops[j + 1].name = "finally"
        /\ \E p \in CallsOfAt(ops[j + 1].cb, j + 1) :
            calls[p].args = <<ops[j].val, Undefined>>


\* C28: what a settlement call does on a cancelled context does not depend
\* on the producer's outcome.  From the same context, resolve with any value
\* and reject with any value invoke the same callbacks with the same
\* arguments and leave the same context; the call that was made did exactly
\* that: it invoked the cancelled callback, if one is registered, with no
\* argument, then, if the instance is awaited, the fail callback with
\* {cancelled: true}, nothing else, and left the context as it was.
C28_CancelledSettlementIsBlind ==
    \A j \in Ops :
        (IsSettle(j) /\ ops[j].pre.status = "cancelled")
        => LET c == ops[j].pre
               expected ==
                   (IF IsSet(c.cancelledCallback)
                    THEN <<Call(c.cancelledCallback, <<>>)>> ELSE <<>>)
                   \o (IF c.isAwaited
                       THEN <<Call(c.failCallback, <<CancelSignal>>)>> ELSE <<>>)
           IN  /\ \A v \in ResolveValues : \A e \in RejectValues :
                    /\ resolve(c, v) = reject(c, e)
                    /\ resolve(c, v).calls = expected
                    /\ resolve(c, v).ctx = c
               /\ Post(j) = c
               /\ Cardinality(CallsAt(j)) = Len(expected)
               /\ \A p \in CallsAt(j) :
                    \E i \in 1..Len(expected) :
                        /\ expected[i] = Call(calls[p].cb, calls[p].args)
                        /\ \A q \in CallsAt(j) : q < p => i > 1

C28_Witness ==
    \E j \in Ops :
        /\ ops[j].name = "reject" /\ ops[j].pre.status = "cancelled"
        /\ IsSet(ops[j].pre.cancelledCallback)
        /\ ops[j].pre.isAwaited
        /\ Cardinality(CallsAt(j)) = 2
        /\ \E p \in CallsAt(j) : calls[p].args = <<CancelSignal>>


-----------------------------------------------------------------------------
(* processPromise: the adapter that settles a TypedPromise from a fetch     *)
(* response.  Its chain is promise.then(read).then(deliver).catch(onError): *)
(* deliver runs when the response and its body arrived, onError runs when   *)
(* anything before it in the chain rejected or threw.                       *)

\* What deliver looks at: r.ok, whether Content-Type is
\* application/problem+json, and whether JSON.parse(r.body) succeeds.
Responses == [ok : BOOLEAN, problemJson : BOOLEAN, parses : BOOLEAN]

\* JSON.parse(r.body) of a 2xx response, and r.body itself.
Json == [k |-> "object", n |-> 2]

RawBody == [k |-> "string", n |-> 1]

\* JSON.parse(r.body) of a problem+json response, and { status: r.status || -1 }.
ProblemJson == [k |-> "object", n |-> 3]

StatusOnly == [k |-> "object", n |-> 4]

\* { title: 'Network error', detail: e.message, status: 0 }
NetworkProblem == [k |-> "object", n |-> 0]

\* The value deliver settles with.
delivered(r) ==
    IF ~r.ok
    THEN IF r.problemJson /\ r.parses THEN ProblemJson ELSE StatusOnly
    ELSE IF r.parses THEN Json ELSE RawBody

\* deliver: fail(rejectedJSON) for a response that is not ok, else ok(json)
\* or ok(r.body); ok and fail are the bound resolve and reject.
deliver(c, r) ==
    IF ~r.ok THEN reject(c, delivered(r)) ELSE resolve(c, delivered(r))

\* onError: fail({ title: 'Network error', ... })
onError(c) == reject(c, NetworkProblem)

\* The settlement calls made so far.
Settlements == {j \in Ops : IsSettle(j)}

\* The response and its body arrived: deliver runs, once, unless the chain
\* was rejected before it.
Deliver ==
    \E r \in Responses :
        LET res == deliver(context, r)
        IN  /\ Len(ops) < MaxOps
            /\ Settlements = {}
            /\ context' = res.ctx
            /\ ops' = Append(ops, OpRecord(IF r.ok THEN "resolve" ELSE "reject",
                                           delivered(r), Null, Null, res))
            /\ calls' = calls \o Stamp(res.calls)

\* The chain was rejected: fetch or r.text() rejected (nothing was delivered),
\* or deliver threw because the ok or fail it called threw.  onError runs, once.
OnError ==
    LET res == onError(context)
    IN  /\ Len(ops) < MaxOps
        /\ \/ Settlements = {}
           \/ /\ Cardinality(Settlements) = 1
              /\ \A j \in Settlements :
                    ops[j].threw /\ ops[j].val # NetworkProblem
        /\ context' = res.ctx
        /\ ops' = Append(ops, OpRecord("reject", NetworkProblem, Null, Null, res))
        /\ calls' = calls \o Stamp(res.calls)

\* The consumer registers and cancels as before; only the adapter settles.
NextProcessPromise ==
    \/ Ok \/ Fail \/ Catch \/ Cancelled \/ Finally \/ Cancel \/ Then
    \/ Deliver \/ OnError

SpecProcessPromise == Init /\ [][NextProcessPromise]_vars

\* C22: processPromise calls a settlement entry point at most once for one
\* exchange, whatever the response and whatever the registered callbacks do
\* (together with the delivery of every exchange: exactly once).
C22_OneSettlementPerExchange ==
    \A i \in Ops : \A j \in Ops : (IsSettle(i) /\ IsSettle(j)) => i = j

====
